---- MODULE Spec2Model ----
(***************************************************************************)
(* State-machine model of ColorEdit.py: the command line check             *)
(* (parse_parameters), the per-pixel match and recolour (check_pixel,      *)
(* change_pixel), the region workers (change_color, one OS process each)   *)
(* and the scheduler that crops, starts, collects, pastes and joins        *)
(* (change_img), followed by the save in __main__.                         *)
(*                                                                         *)
(* A pixel is a tuple of 3 (RGB) or 4 (RGBA) integers; Python's pixel[0]   *)
(* is pixel[1] here.  An image is one row high: it is the sequence of its  *)
(* columns, column x of Python being element x+1.                          *)
(*                                                                         *)
(* The command line is that of the single image mode ("I") with an integer *)
(* corecount; the directory mode runs the same parse_parameters test and   *)
(* the same change_img once per file.                                      *)
(***************************************************************************)
EXTENDS Integers, Sequences, FiniteSets, TLC

VARIABLES
    argv,       \* the command line: corecount (argv[1]) and the optional tolerance
    input,      \* the picture access_img reads from image_path
    pc,         \* where __main__ / change_img stands
    i,          \* the index of the loop change_img is in
    img,        \* WorkImg, the picture change_img crops from and pastes into
    proc,       \* process_list: state, region copy and column of each worker
    q,          \* the multiprocessing Queue, oldest container first
    crop_dict,  \* region index -> region, as collected by the get loop
    arrival,    \* the region indices in the order the get loop took them
    saved       \* WorkImg.save was called

vars == <<argv, input, pc, i, img, proc, q, crop_dict, arrival, saved>>

----------------------------------------------------------------------------
(* Bounds of the model. *)

MaxW == 2
MaxK == 3

(* Program constants. *)

DefaultTolerance == 70
MaxTolerance == 255

----------------------------------------------------------------------------
(* Inputs. *)

\* The two colours of the command line, as check_color resolves them.
color_1 == <<100, 100, 100, 255>>
color_2 == <<200, 50, 0, 255>>

\* RGBA pixels the input pictures are made of.
Palette == { <<120, 100, 100, 200>>, <<80, 80, 80, 7>> }

\* The 4x1 picture of the end-to-end scenario.
ScenarioImg ==
    << <<100, 100, 100, 255>>, <<10, 10, 10, 255>>,
       <<100, 100, 100, 255>>, <<0, 0, 0, 255>> >>

\* The tolerance argument: absent (<<>>) or one integer.
TolArgs == { <<>>, <<0 - 1>>, <<0>>, <<20>>, <<256>> }

\* The corecount argument, an integer.
CoreArgs == (0 - 1)..MaxK

RECURSIVE SeqsUpTo(_, _)
SeqsUpTo(S, n) ==
    IF n = 0 THEN { <<>> }
    ELSE LET shorter == SeqsUpTo(S, n - 1)
         IN  shorter \cup { Append(s, e) : s \in shorter, e \in S }

\* A picture without transparency: every pixel loses its alpha channel.
DropAlpha(image) == [x \in 1..Len(image) |-> SubSeq(image[x], 1, 3)]

RGBAImages == SeqsUpTo(Palette, MaxW) \cup { ScenarioImg }
Images == RGBAImages \cup { DropAlpha(im) : im \in RGBAImages }

----------------------------------------------------------------------------
(* Pure functions of the program. *)

\* A range that leaves out its lower end as well.
range_open(a, b) == (a + 1)..(b - 1)

\* Python's range(a, b): the integers a <= n < b.
range(a, b) == a..(b - 1)

\* A match on the closed interval color - tolerance .. color + tolerance.
check_pixel_closed(pixel, color, tol) ==
    \A c \in 1..3 : pixel[c] \in (color[c] - tol)..(color[c] + tol)

check_pixel(pixel, color, tolerance) ==
    /\ pixel[1] \in range(color[1] - tolerance, color[1] + tolerance)
    /\ pixel[2] \in range(color[2] - tolerance, color[2] + tolerance)
    /\ pixel[3] \in range(color[3] - tolerance, color[3] + tolerance)

\* A hard overwrite by the new colour, the shading lost.
change_pixel_flat(pixel, color1, color2) ==
    IF Len(pixel) >= 4
    THEN << color2[1], color2[2], color2[3], pixel[4] >>
    ELSE << color2[1], color2[2], color2[3] >>

\* pixel[3] of Python raises IndexError on a 3-channel pixel.
change_pixel(pixel, color1, color2) ==
    IF Len(pixel) >= 4
    THEN << color2[1] + pixel[1] - color1[1], color2[2] + pixel[2] - color1[2],
            color2[3] + pixel[3] - color1[3], pixel[4] >>
    ELSE << color2[1] + pixel[1] - color1[1], color2[2] + pixel[2] - color1[2],
            color2[3] + pixel[3] - color1[3] >>

\* An image channel is one byte: the image library stores a value clipped
\* to 0..255.
CLIP8(v) == IF v < 0 THEN 0 ELSE IF v > 255 THEN 255 ELSE v

putpixel(image, x, value) ==
    [image EXCEPT ![x] = [c \in 1..Len(value) |-> CLIP8(value[c])]]

\* The left bound computed from a rounded region width.
RegionLeft_width(n, W, K) == n * (W \div K)

\* Column bounds of region n of a picture W wide cut in K regions.
RegionLeft(n, W, K) == (n * W) \div K
\* The right bound computed from a rounded region width.
RegionRight_width(n, W, K) == (n + 1) * (W \div K)

RegionRight(n, W, K) == ((n + 1) * W) \div K

\* img.crop((x0, 0, x1, height)): the columns x0 <= x < x1, copied.
crop(image, x0, x1) == SubSeq(image, x0 + 1, x1)

\* A paste one column to the left of the box.
paste_shift(image, region, x0, x1) ==
    [x \in 1..Len(image) |->
        IF x0 <= x /\ x < x1 THEN region[x - x0 + 1] ELSE image[x]]

\* A paste that mixes the region with what the box holds.
paste_blend(image, region, x0, x1) ==
    [x \in 1..Len(image) |->
        IF x0 < x /\ x <= x1
        THEN [c \in 1..Len(image[x]) |-> (image[x][c] + region[x - x0][c]) \div 2]
        ELSE image[x]]

\* img.paste(region, (x0, 0, x1, height)): the columns x0 <= x < x1 are
\* overwritten by the region's.
paste(image, region, x0, x1) ==
    [x \in 1..Len(image) |->
        IF x0 < x /\ x <= x1 THEN region[x - x0] ELSE image[x]]

\* parse_parameters with the corecount test off by one (>= 0).
parse_parameters_zero(args) ==
    IF ~(args.core_count >= 0) THEN [exit |-> TRUE]
    ELSE IF Len(args.tol) = 1 /\ args.tol[1] > MaxTolerance THEN [exit |-> TRUE]
    ELSE [exit |-> FALSE,
          tolerance |-> IF Len(args.tol) = 1 THEN args.tol[1] ELSE DefaultTolerance,
          core_count |-> args.core_count]

\* parse_parameters: "exit" for exit_error(), else the values it returns.
parse_parameters(args) ==
    IF ~(args.core_count >= 1) THEN [exit |-> TRUE]
    ELSE IF Len(args.tol) = 1 /\ args.tol[1] > MaxTolerance THEN [exit |-> TRUE]
    ELSE [exit |-> FALSE,
          tolerance |-> IF Len(args.tol) = 1 THEN args.tol[1] ELSE DefaultTolerance,
          core_count |-> args.core_count]

tolerance == parse_parameters(argv).tolerance
core_count == parse_parameters(argv).core_count

----------------------------------------------------------------------------
(* The state after construction: the command line and the picture on disk  *)
(* are given, nothing has run.                                             *)

Init ==
    /\ argv \in [core_count : CoreArgs, tol : TolArgs]
    /\ input \in Images
    /\ pc = "parse"
    /\ i = 0
    /\ img = <<>>
    /\ proc = <<>>
    /\ q = <<>>
    /\ crop_dict = <<>>
    /\ arrival = <<>>
    /\ saved = FALSE

----------------------------------------------------------------------------
(* __main__ before change_img. *)

ParseRefuse ==
    /\ pc = "parse"
    /\ parse_parameters(argv).exit
    /\ pc' = "exit"
    /\ UNCHANGED <<argv, input, i, img, proc, q, crop_dict, arrival, saved>>

\* parse_parameters returns; WorkImg = access_img(image_path).copy().
ParseOpen ==
    /\ pc = "parse"
    /\ ~parse_parameters(argv).exit
    /\ img' = input
    /\ pc' = "create"
    /\ i' = 0
    /\ UNCHANGED <<argv, input, proc, q, crop_dict, arrival, saved>>

----------------------------------------------------------------------------
(* change_img, the scheduler.  Processes are numbered 0..core_count-1;     *)
(* process n is proc[n+1].                                                 *)

\* for i in range(core_count): p = Process(... img.crop(...) ...)
Create ==
    /\ pc = "create"
    /\ i < core_count
    /\ proc' = Append(proc,
                 [st |-> "new", counter |-> i, x |-> 0, hits |-> <<>>,
                  img |-> crop(img, RegionLeft(i, Len(img), core_count),
                                    RegionRight(i, Len(img), core_count))])
    /\ i' = i + 1
    /\ UNCHANGED <<argv, input, pc, img, q, crop_dict, arrival, saved>>

CreateDone ==
    /\ pc = "create"
    /\ i = core_count
    /\ pc' = "start"
    /\ i' = 0
    /\ UNCHANGED <<argv, input, img, proc, q, crop_dict, arrival, saved>>

\* A start loop that begins at 1: process 0 is never started.
Start_fromone ==
    /\ pc = "start"
    /\ i < core_count
    /\ proc' = IF i = 0 THEN proc ELSE [proc EXCEPT ![i + 1].st = "running"]
    /\ i' = i + 1
    /\ UNCHANGED <<argv, input, pc, img, q, crop_dict, arrival, saved>>

\* for i in range(core_count): process_list[i].start()
Start ==
    /\ pc = "start"
    /\ i < core_count
    /\ proc' = [proc EXCEPT ![i + 1].st = "running"]
    /\ i' = i + 1
    /\ UNCHANGED <<argv, input, pc, img, q, crop_dict, arrival, saved>>

StartDone ==
    /\ pc = "start"
    /\ i = core_count
    /\ pc' = "get"
    /\ i' = 0
    /\ UNCHANGED <<argv, input, img, proc, q, crop_dict, arrival, saved>>

\* A container filed under the loop index, that is by order of arrival.
GetKey_arrival(container, n) == n

\* The key under which the get loop files a container.
GetKey(container, n) == container[1]

StoreContainer(container, n) ==
    LET key == GetKey(container, n)
    IN  /\ crop_dict' = [k \in DOMAIN crop_dict \cup {key} |->
                            IF k = key THEN container[2] ELSE crop_dict[k]]
        /\ arrival' = Append(arrival, container[1])

\* A get loop that does not wait: an empty queue is skipped.
Get_nowait ==
    /\ pc = "get"
    /\ i < core_count
    /\ IF q # <<>>
       THEN StoreContainer(Head(q), i) /\ q' = Tail(q)
       ELSE UNCHANGED <<crop_dict, arrival, q>>
    /\ i' = i + 1
    /\ UNCHANGED <<argv, input, pc, img, proc, saved>>

\* container = q.get(); crop_dict[container[0]] = container[1]
\* q.get() blocks while the queue is empty.
Get ==
    /\ pc = "get"
    /\ i < core_count
    /\ q # <<>>
    /\ StoreContainer(Head(q), i)
    /\ q' = Tail(q)
    /\ i' = i + 1
    /\ UNCHANGED <<argv, input, pc, img, proc, saved>>

GetDone ==
    /\ pc = "get"
    /\ i = core_count
    /\ pc' = "paste"
    /\ i' = 0
    /\ UNCHANGED <<argv, input, img, proc, q, crop_dict, arrival, saved>>

\* img.paste(crop_dict[i], box): KeyError when crop_dict has no i, and
\* ValueError when the region does not fit the box.
Paste ==
    /\ pc = "paste"
    /\ i < core_count
    /\ LET x0 == RegionLeft(i, Len(img), core_count)
           x1 == RegionRight(i, Len(img), core_count)
       IN  IF i \in DOMAIN crop_dict /\ Len(crop_dict[i]) = x1 - x0
           THEN /\ img' = paste(img, crop_dict[i], x0, x1)
                /\ i' = i + 1
                /\ pc' = pc
           ELSE /\ pc' = "raised"
                /\ UNCHANGED <<img, i>>
    /\ UNCHANGED <<argv, input, proc, q, crop_dict, arrival, saved>>

PasteDone ==
    /\ pc = "paste"
    /\ i = core_count
    /\ pc' = "join"
    /\ i' = 0
    /\ UNCHANGED <<argv, input, img, proc, q, crop_dict, arrival, saved>>

\* process_list[i].join(): returns once the process has exited.
Join ==
    /\ pc = "join"
    /\ i < core_count
    /\ proc[i + 1].st \in {"exited", "failed"}
    /\ i' = i + 1
    /\ UNCHANGED <<argv, input, pc, img, proc, q, crop_dict, arrival, saved>>

JoinDone ==
    /\ pc = "join"
    /\ i = core_count
    /\ pc' = "save"
    /\ i' = 0
    /\ UNCHANGED <<argv, input, img, proc, q, crop_dict, arrival, saved>>

\* WorkImg.save(...)
Save ==
    /\ pc = "save"
    /\ saved' = TRUE
    /\ pc' = "done"
    /\ UNCHANGED <<argv, input, i, img, proc, q, crop_dict, arrival>>

----------------------------------------------------------------------------
(* change_color, one worker process, on its own copy of its region.        *)

\* A pixel loop on a view of the destination: a recoloured pixel is
\* written through to the picture of the scheduler.
WorkerPixel_inplace(n) ==
    /\ n \in 1..Len(proc)
    /\ proc[n].st = "running"
    /\ proc[n].x < Len(proc[n].img)
    /\ LET x == proc[n].x + 1
           pixel == proc[n].img[x]
           hit == check_pixel(pixel, color_1, tolerance)
           gx == RegionLeft(n - 1, Len(img), core_count) + x
       IN  /\ proc' = [proc EXCEPT
                        ![n].img = IF hit
                                   THEN putpixel(@, x, change_pixel(pixel, color_1, color_2))
                                   ELSE @,
                        ![n].hits = Append(@, hit),
                        ![n].x = x]
           /\ img' = IF hit
                     THEN putpixel(img, gx, change_pixel(pixel, color_1, color_2))
                     ELSE img
    /\ UNCHANGED <<argv, input, pc, i, q, crop_dict, arrival, saved>>

\* One iteration of the pixel loop, at column x of the region.
WorkerPixel(n) ==
    /\ n \in 1..Len(proc)
    /\ proc[n].st = "running"
    /\ proc[n].x < Len(proc[n].img)
    /\ LET x == proc[n].x + 1
           pixel == proc[n].img[x]
           hit == check_pixel(pixel, color_1, tolerance)
       IN  proc' = [proc EXCEPT
                      ![n].img = IF hit
                                 THEN putpixel(@, x, change_pixel(pixel, color_1, color_2))
                                 ELSE @,
                      ![n].hits = Append(@, hit),
                      ![n].x = x]
    /\ UNCHANGED <<argv, input, pc, i, img, q, crop_dict, arrival, saved>>

\* A worker that returns early, without a q.put, when its region is empty.
WorkerPut_skipempty(n) ==
    /\ n \in 1..Len(proc)
    /\ proc[n].st = "running"
    /\ proc[n].x = Len(proc[n].img)
    /\ q' = IF Len(proc[n].img) = 0 THEN q
            ELSE Append(q, <<proc[n].counter, proc[n].img>>)
    /\ proc' = [proc EXCEPT ![n].st = "exited"]
    /\ UNCHANGED <<argv, input, pc, i, img, crop_dict, arrival, saved>>

\* A worker that numbers its container from 1.
WorkerPut_onebased(n) ==
    /\ n \in 1..Len(proc)
    /\ proc[n].st = "running"
    /\ proc[n].x = Len(proc[n].img)
    /\ q' = Append(q, <<proc[n].counter + 1, proc[n].img>>)
    /\ proc' = [proc EXCEPT ![n].st = "exited"]
    /\ UNCHANGED <<argv, input, pc, i, img, crop_dict, arrival, saved>>

\* q.put([counter, img]) and the process exits.
WorkerPut(n) ==
    /\ n \in 1..Len(proc)
    /\ proc[n].st = "running"
    /\ proc[n].x = Len(proc[n].img)
    /\ q' = Append(q, <<proc[n].counter, proc[n].img>>)
    /\ proc' = [proc EXCEPT ![n].st = "exited"]
    /\ UNCHANGED <<argv, input, pc, i, img, crop_dict, arrival, saved>>

\* The process dies of an uncaught exception before its q.put.
WorkerFail(n) ==
    /\ n \in 1..Len(proc)
    /\ proc[n].st = "running"
    /\ proc' = [proc EXCEPT ![n].st = "failed"]
    /\ UNCHANGED <<argv, input, pc, i, img, q, crop_dict, arrival, saved>>

----------------------------------------------------------------------------

Scheduler ==
    \/ ParseRefuse \/ ParseOpen
    \/ Create \/ CreateDone
    \/ Start \/ StartDone
    \/ Get \/ GetDone
    \/ Paste \/ PasteDone
    \/ Join \/ JoinDone
    \/ Save

Worker(n) == WorkerPixel(n) \/ WorkerPut(n) \/ WorkerFail(n)

Next == Scheduler \/ \E n \in 1..Len(proc) : Worker(n)

Spec == Init /\ [][Next]_vars

\* The operating system runs every started process and the main program:
\* a step that stays possible is eventually taken.  A worker's failure is
\* not owed by anyone.
FairSpec ==
    /\ Spec
    /\ WF_vars(Scheduler)
    /\ \A n \in 1..MaxK : WF_vars(WorkerPixel(n) \/ WorkerPut(n))

----------------------------------------------------------------------------
(* Vocabulary of the properties. *)

\* Width of the picture under work and the number of regions, once the
\* command line was accepted.
W == Len(input)
K == core_count

Accepted == pc \notin {"parse", "exit"}
Composited == pc \in {"join", "save", "done"}
Regions == 0..(K - 1)

\* The tolerance cube, by comparison of the three colour channels.
InCube(pixel, target, tol) ==
    \A c \in 1..3 : target[c] - tol <= pixel[c] /\ pixel[c] < target[c] + tol

\* The shading-preserving offset of one channel.
Offset(pixel, c) == color_2[c] + pixel[c] - color_1[c]

\* The input columns of region n.
InputRegion(n) == SubSeq(input, RegionLeft(n, W, K) + 1, RegionRight(n, W, K))

\* What a worker makes of a region, pixel by pixel.
ExpectedRegion(n) ==
    [x \in 1..Len(InputRegion(n)) |->
        LET p == InputRegion(n)[x]
        IN  IF InCube(p, color_1, tolerance)
            THEN [c \in 1..Len(p) |->
                    IF c <= 3
                    THEN IF Offset(p, c) < 0 THEN 0
                         ELSE IF Offset(p, c) > 255 THEN 255 ELSE Offset(p, c)
                    ELSE p[c]]
            ELSE p]

SomeFailed == \E n \in 1..Len(proc) : proc[n].st = "failed"

----------------------------------------------------------------------------
(* C1.  Partition completeness: the K column ranges                        *)
(* [n*W div K, (n+1)*W div K) are contiguous and cover 0..W-1, every       *)
(* column lying in exactly one of them, also when W < K; every process is  *)
(* created with a crop of exactly its range.                               *)

C1_PartitionComplete ==
    Accepted /\ K >= 1 =>
        /\ RegionLeft(0, W, K) = 0
        /\ RegionRight(K - 1, W, K) = W
        /\ \A n \in Regions :
              /\ RegionLeft(n, W, K) <= RegionRight(n, W, K)
              /\ n + 1 \in Regions => RegionRight(n, W, K) = RegionLeft(n + 1, W, K)
        /\ \A x \in 0..(W - 1) :
              Cardinality({ n \in Regions :
                  RegionLeft(n, W, K) <= x /\ x < RegionRight(n, W, K) }) = 1
        /\ \A n \in 1..Len(proc) :
              Len(proc[n].img) = RegionRight(n - 1, W, K) - RegionLeft(n - 1, W, K)

\* All regions are cut, the picture being narrower than the worker count.
C1_Witness ==
    /\ pc = "start"
    /\ Len(proc) = K
    /\ 0 < W /\ W < K

----------------------------------------------------------------------------
(* C2.  Order-independence: whatever the interleaving of the workers and   *)
(* the order of arrival on the queue, every result is filed under its own  *)
(* region index and the composited picture is, region by region, what the  *)
(* worker of that region makes of the input.                               *)

C2_OrderIndependent ==
    /\ pc \in {"paste", "join", "save", "done"} =>
          \A n \in DOMAIN crop_dict : crop_dict[n] = ExpectedRegion(n)
    /\ Composited =>
          \A n \in Regions :
             SubSeq(img, RegionLeft(n, W, K) + 1, RegionRight(n, W, K))
                = ExpectedRegion(n)

\* A finished run whose last region arrived first and which recoloured
\* something.
C2_Witness ==
    /\ pc = "done"
    /\ K >= 2
    /\ arrival[1] = K - 1
    /\ img # input
    /\ InputRegion(0) # InputRegion(K - 1)

----------------------------------------------------------------------------
(* C3.  The end-to-end scenario: tolerance 0, 2 workers, the 4x1 picture:  *)
(* the two pixels equal to the from colour come out as the to colour.      *)

C3_ScenarioRecoloured ==
    /\ pc = "done"
    /\ input = ScenarioImg
    /\ argv.tol = <<0>>
    /\ argv.core_count = 2
    => img = << <<200, 50, 0, 255>>, <<10, 10, 10, 255>>,
                <<200, 50, 0, 255>>, <<0, 0, 0, 255>> >>

----------------------------------------------------------------------------
(* C4.  check_pixel answers true exactly when each of R, G, B lies in the  *)
(* half-open interval target - tolerance <= channel < target + tolerance,  *)
(* whatever the alpha of the pixel and of the target: every answer a       *)
(* worker got for a column of its region is that of the three comparisons  *)
(* on the input pixel.                                                     *)

C4_HalfOpenMatch ==
    \A n \in 1..Len(proc) :
        \A x \in 1..Len(proc[n].hits) :
            proc[n].hits[x] = InCube(InputRegion(n - 1)[x], color_1, tolerance)

\* A worker met a pixel on the upper end of the interval (refused) and a
\* pixel whose alpha is not the target's (accepted).
C4_Witness ==
    \E n \in 1..Len(proc) : \E x, y \in 1..Len(proc[n].hits) :
        /\ InputRegion(n - 1)[x][1] = color_1[1] + tolerance
        /\ ~proc[n].hits[x]
        /\ Len(InputRegion(n - 1)[y]) = 4
        /\ InputRegion(n - 1)[y][4] # color_1[4]
        /\ proc[n].hits[y]

----------------------------------------------------------------------------
(* C5.  Matched pixels.  As claimed: in the final picture every matched    *)
(* pixel has to + input - from in each of R, G, B, unclamped, its alpha    *)
(* kept and its channel count kept.                                        *)

C5_OffsetUnclamped ==
    Composited =>
        \A x \in 1..W :
            InCube(input[x], color_1, tolerance) =>
                /\ Len(img[x]) = Len(input[x])
                /\ \A c \in 1..3 : img[x][c] = Offset(input[x], c)
                /\ Len(input[x]) = 4 => img[x][4] = input[x][4]

(* C5, amended: the same, for each channel whose to + input - from lies in *)
(* 0..255, the values a channel of the picture can hold.                   *)

C5_OffsetInRange ==
    Composited =>
        \A x \in 1..W :
            InCube(input[x], color_1, tolerance) =>
                /\ Len(img[x]) = Len(input[x])
                /\ \A c \in 1..3 :
                      Offset(input[x], c) \in 0..255 => img[x][c] = Offset(input[x], c)
                /\ Len(input[x]) = 4 => img[x][4] = input[x][4]

\* A finished run with a matched pixel that is a lighter shade of the from
\* colour, on a picture with alpha and on one without.
C5_Witness ==
    /\ pc = "done"
    /\ \E x \in 1..W :
          /\ InCube(input[x], color_1, tolerance)
          /\ input[x][1] # color_1[1]
          /\ \A c \in 1..3 : Offset(input[x], c) \in 0..255
          /\ Len(input[x]) = 4
          /\ input[x][4] # color_2[4]

----------------------------------------------------------------------------
(* C6.  Unmatched pixels: a pixel outside the tolerance cube is never      *)
(* rewritten, neither in the region of its worker, nor in a container on   *)
(* the queue or in crop_dict, nor in the picture, in any state of any run. *)

C6_UnmatchedUntouched ==
    Accepted =>
        \A n \in Regions : \A x \in 1..Len(InputRegion(n)) :
            ~InCube(InputRegion(n)[x], color_1, tolerance) =>
                /\ n + 1 <= Len(proc) => proc[n + 1].img[x] = InputRegion(n)[x]
                /\ n \in DOMAIN crop_dict => crop_dict[n][x] = InputRegion(n)[x]
                /\ \A m \in 1..Len(q) :
                      q[m][1] = n => q[m][2][x] = InputRegion(n)[x]
                /\ img[RegionLeft(n, W, K) + x] = InputRegion(n)[x]

\* A finished run that recoloured one pixel and left another one alone.
C6_Witness ==
    /\ pc = "done"
    /\ \E x, y \in 1..W :
          /\ ~InCube(input[x], color_1, tolerance)
          /\ InCube(input[y], color_1, tolerance)
          /\ img[y] # input[y]

----------------------------------------------------------------------------
(* C7.  A worker that fails before its q.put: change_img eventually ends   *)
(* in a failure passed to its caller.                                      *)

C7_FailurePropagates == SomeFailed ~> (pc = "raised")

----------------------------------------------------------------------------
(* C8.  All-or-nothing: once a worker has failed, nothing is ever pasted   *)
(* or saved, the picture is the input and the scheduler is still in its    *)
(* start or get loop; and a picture that differs from the input means      *)
(* that every worker has delivered, so that none can fail any more.        *)

C8_NoPartialCommit ==
    /\ SomeFailed =>
          /\ img = input
          /\ ~saved
          /\ pc \in {"start", "get"}
    /\ (Accepted /\ img # input) =>
          \A n \in 1..Len(proc) : proc[n].st = "exited"

\* A worker failed while the result of another one, with a recoloured
\* pixel, was already collected.
C8_Witness ==
    /\ SomeFailed
    /\ pc = "get"
    /\ \E n \in DOMAIN crop_dict : crop_dict[n] # InputRegion(n)

----------------------------------------------------------------------------
(* C9.  A tolerance argument above 255 or below 0 is refused: the program  *)
(* never gets past parse_parameters.                                       *)

C9_ToleranceRefused ==
    (Len(argv.tol) = 1 /\ (argv.tol[1] > 255 \/ argv.tol[1] < 0)) =>
        /\ pc \in {"parse", "exit"}
        /\ img = <<>> /\ proc = <<>> /\ ~saved

----------------------------------------------------------------------------
(* C10.  A worker count below 1 is refused: no process is created, no      *)
(* picture is opened, changed or saved.                                    *)

C10_WorkerCountRefused ==
    argv.core_count < 1 =>
        /\ pc \in {"parse", "exit"}
        /\ img = <<>> /\ proc = <<>> /\ q = <<>> /\ ~saved

\* The error exit was taken for the worker count alone.
C10_Witness ==
    /\ pc = "exit"
    /\ argv.core_count < 1
    /\ argv.tol = <<20>>

----------------------------------------------------------------------------
(* C11.  A picture narrower than the worker count: the workers of the      *)
(* zero-width regions deliver one container each, never two, under their   *)
(* own index; nothing is raised; and the composited picture is the         *)
(* results of the non-empty regions, in the order of their indices.        *)

\* How many containers of region n are on the queue or were taken from it.
Delivered(n) ==
    Cardinality({ m \in 1..Len(q) : q[m][1] = n })
        + Cardinality({ m \in 1..Len(arrival) : arrival[m] = n })

\* The results of the non-empty regions n..K-1, one after the other.
RECURSIVE NonEmptyResults(_)
NonEmptyResults(n) ==
    IF n >= K THEN <<>>
    ELSE IF RegionLeft(n, W, K) = RegionRight(n, W, K) THEN NonEmptyResults(n + 1)
    ELSE ExpectedRegion(n) \o NonEmptyResults(n + 1)

C11_EmptyRegionsNoOp ==
    (Accepted /\ W < K) =>
        /\ pc # "raised"
        /\ \A n \in 1..Len(proc) :
              Len(proc[n].img) = 0 =>
                 /\ Delivered(n - 1) = (IF proc[n].st = "exited" THEN 1 ELSE 0)
                 /\ \A m \in 1..Len(q) : q[m][1] = n - 1 => q[m][2] = <<>>
                 /\ n - 1 \in DOMAIN crop_dict => crop_dict[n - 1] = <<>>
        /\ Composited => img = NonEmptyResults(0)

\* A finished run with two empty regions and a recoloured pixel.
C11_Witness ==
    /\ pc = "done"
    /\ 0 < W /\ W + 2 <= K
    /\ img # input

----------------------------------------------------------------------------
(* C12.  Parallel equals sequential: the picture change_img returns with   *)
(* K workers is the picture that one pass of check_pixel, change_pixel and *)
(* putpixel over all the columns of the whole input gives, which is what   *)
(* the single worker of K = 1 computes.                                    *)

\* The pixel loop of change_color on a whole image, from column x on.
RECURSIVE PixelLoop(_, _)
PixelLoop(image, x) ==
    IF x > Len(image) THEN image
    ELSE PixelLoop(IF check_pixel(image[x], color_1, tolerance)
                   THEN putpixel(image, x, change_pixel(image[x], color_1, color_2))
                   ELSE image,
                   x + 1)

C12_ParallelEqualsSequential ==
    Composited => img = PixelLoop(input, 1)

\* A finished run of several workers, of which two had pixels to recolour.
C12_Witness ==
    /\ pc = "done"
    /\ K >= 2
    /\ Cardinality({ n \in Regions : ExpectedRegion(n) # InputRegion(n) }) >= 2

----------------------------------------------------------------------------
(* C13.  Re-composition is idempotent: once all regions are pasted,        *)
(* pasting every crop_dict[n] into its box once more leaves the picture    *)
(* as it is.                                                               *)

\* The paste loop of change_img on image, from region n on.
RECURSIVE PasteLoop(_, _)
PasteLoop(image, n) ==
    IF n >= K THEN image
    ELSE PasteLoop(paste(image, crop_dict[n],
                         RegionLeft(n, Len(image), K), RegionRight(n, Len(image), K)),
                   n + 1)

C13_RecompositionIdempotent ==
    Composited => PasteLoop(img, 0) = img

\* The regions are pasted and the picture is no longer the input.
C13_Witness ==
    /\ pc = "join"
    /\ i = 0
    /\ K >= 2
    /\ img # input

----------------------------------------------------------------------------
(* C14.  The destination picture is written by the paste loop alone, and   *)
(* only once all K containers were taken from the queue: while fewer than  *)
(* K are collected the picture is the input; a step that changes the       *)
(* picture is a step of the paste loop with K results collected and all K  *)
(* workers exited; and a step of worker n leaves the picture, crop_dict    *)
(* and the region of every other worker as they are.                       *)

C14_OnlyCompositorWrites ==
    /\ [](Accepted /\ Len(arrival) < K => img = input)
    /\ [][ /\ (pc # "parse" /\ img' # img) =>
                /\ pc = "paste" /\ pc' = "paste"
                /\ Len(arrival) = K
                /\ \A n \in 1..Len(proc) : proc[n].st = "exited"
           /\ \A n \in 1..Len(proc) :
                Worker(n) =>
                   /\ img' = img
                   /\ crop_dict' = crop_dict
                   /\ \A m \in 1..Len(proc) : m # n => proc'[m] = proc[m]
       ]_vars

\* A worker has recoloured a pixel of its region, a container is already
\* collected, and the picture is still the input.
C14_Witness ==
    /\ pc = "get"
    /\ ~SomeFailed
    /\ 0 < Len(arrival) /\ Len(arrival) < K
    /\ \E n \in 1..Len(proc) :
          /\ proc[n].st = "running"
          /\ proc[n].img # InputRegion(n - 1)
    /\ img = input

----------------------------------------------------------------------------
(* C15.  When the paste loop starts, crop_dict holds every region index    *)
(* 0..K-1: each worker that exited has put exactly one container, under    *)
(* its own index, no index is on the queue or taken twice, a collected     *)
(* index is never filed over, and no lookup crop_dict[i] misses.           *)

C15_EveryIndexOnce ==
    Accepted =>
        /\ pc # "raised"
        /\ \A n \in 1..Len(proc) :
              Delivered(n - 1) = (IF proc[n].st = "exited" THEN 1 ELSE 0)
        /\ \A m \in 1..Len(q) : q[m][1] \in Regions
        /\ DOMAIN crop_dict = { arrival[m] : m \in 1..Len(arrival) }
        /\ Cardinality(DOMAIN crop_dict) = Len(arrival)
        /\ pc \in {"paste", "join", "save", "done"} => DOMAIN crop_dict = Regions

\* The paste loop starts on the results of several workers, the first of
\* which did not arrive first.
C15_Witness ==
    /\ pc = "paste"
    /\ i = 0
    /\ K >= 2
    /\ arrival[1] # 0

----------------------------------------------------------------------------
(* C16.  Termination without failures: under fair scheduling a run whose   *)
(* command line is accepted and in which no worker fails gets to the       *)
(* return of change_img; and whenever change_img has returned, the queue   *)
(* is empty, exactly K containers were taken, and each of the K processes  *)
(* has put its container, exited and been joined.                          *)

Returned == pc \in {"save", "done"}

C16_TerminatesWhenNoFailure ==
    /\ Accepted ~> (Returned \/ SomeFailed)
    /\ [](Returned =>
            /\ q = <<>>
            /\ Len(arrival) = K
            /\ Len(proc) = K
            /\ \A n \in 1..Len(proc) :
                  proc[n].st = "exited" /\ Delivered(n - 1) = 1)
    /\ [](pc = "join" => \A n \in 1..i : proc[n].st = "exited")

\* change_img has returned from a run of several workers.
C16_Witness ==
    /\ pc = "save"
    /\ K >= 2
    /\ ~SomeFailed
    /\ q = <<>>

----------------------------------------------------------------------------
(* C17.  Balanced partition: every region is floor(W/K) or floor(W/K)+1    *)
(* columns wide, the latter only when K does not divide W (it is then      *)
(* ceil(W/K)); two regions differ by one column at most; and every process *)
(* is created with a crop of such a width.                                 *)

RegionWidth(n) == RegionRight(n, W, K) - RegionLeft(n, W, K)

C17_BalancedPartition ==
    (Accepted /\ K >= 1) =>
        /\ \A n \in Regions :
              /\ RegionWidth(n) \in { W \div K, (W + K - 1) \div K }
              /\ W % K = 0 => RegionWidth(n) = W \div K
        /\ \A n, m \in Regions :
              RegionWidth(n) - RegionWidth(m) \in {0 - 1, 0, 1}
        /\ \A n \in 1..Len(proc) :
              Len(proc[n].img) \in { W \div K, (W + K - 1) \div K }

\* All regions are cut of a picture whose width is no multiple of the
\* worker count and exceeds it: regions of both widths exist.
C17_Witness ==
    /\ pc = "start"
    /\ Len(proc) = K
    /\ W > K
    /\ W % K # 0
    /\ \E n, m \in 1..Len(proc) : Len(proc[n].img) = Len(proc[m].img) + 1

====
